---- MODULE Spec2Model ----
(***************************************************************************)
(* The blueprint program (program/src/processor.rs): a Blueprint fixes an  *)
(* authority, an approver list and a threshold; a Proposal under it        *)
(* collects approvals and is marked executed once.  The ledger is a map    *)
(* from account addresses to accounts (owner, allocated size, contents).   *)
(* One transaction is one call of Processor::process; it either commits    *)
(* its writes and returns Ok, or fails and leaves the ledger as it was.    *)
(***************************************************************************)
EXTENDS Integers, Sequences, FiniteSets, TLC

VARIABLES
    blueprints, \* address -> account whose contents are a Blueprint
    proposals,  \* address -> account whose contents are a Proposal
    last        \* the transaction in progress: its command, accounts, result

vars == <<blueprints, proposals, last>>

(***************************************************************************)
(* Inputs.                                                                 *)
(***************************************************************************)
\* Largest threshold submitted to Initialize (a u8 in the code).
MaxThreshold == 3

\* Wallet identities.
Keys == {"A", "B", "C"}

\* The all-zero public key (the contents of a zero-filled account).
ZeroKey == "0"

\* Approver lists submitted to Initialize.
ApproverLists == {<<>>, <<"A">>, <<"A", "A">>, <<"A", "B">>}

Hashes == {"h1"}

ActionTypes == {7}

\* The first account of a call: its key and its signer flag.
FirstAccounts ==
    {[key |-> k, is_signer |-> TRUE] : k \in Keys}
        \cup {[key |-> "A", is_signer |-> FALSE]}

\* The program's own identity, the system program's, and another program's.
ProgramId == "program"
SystemId == "system"
OtherId == "other"

(***************************************************************************)
(* Address derivation: Pubkey::find_program_address is collision free, so  *)
(* the derived address is an injective function of the seeds.              *)
(***************************************************************************)
BlueprintPda(authority) == "blueprint/" \o authority

ProposalPda(blueprint_key, payload_hash) ==
    "proposal/" \o blueprint_key \o "/" \o payload_hash

\* Accounts of the ledger that this program did not create: a zero-filled
\* 37-byte account (which any wallet can create), and an account of another
\* program whose bytes are those of a Proposal already approved by A.
ZeroSlot == "zero37"
ForgedSlot == "forged"

\* The addresses passed as the blueprint account and as the proposal account.
BlueprintSlots ==
    {BlueprintPda("A"), BlueprintPda("B"), ZeroSlot,
     ProposalPda(BlueprintPda("A"), "h1")}

ProposalSlots ==
    {ProposalPda(BlueprintPda("A"), "h1"), ProposalPda(BlueprintPda("B"), "h1"),
     ForgedSlot, BlueprintPda("A")}

(***************************************************************************)
(* Encoding (borsh): a Pubkey is 32 bytes, a Vec a u32 length and its      *)
(* elements, u8/bool 1 byte, u16 2 bytes, [u8; 32] 32 bytes.               *)
(***************************************************************************)
BlueprintLen(b) == 32 + (4 + 32 * Len(b.approvers)) + 1

ProposalLen(p) == 32 + 32 + 2 + 32 + (4 + 32 * Len(p.approvals)) + 1

Contains(seq, k) == \E i \in 1..Len(seq) : seq[i] = k

\* Blueprint::try_from_slice(&ai.data.borrow()): the account's bytes parse as
\* a Blueprint and none is left over.  The bytes of a Proposal (103 + 32k)
\* never have the length of a Blueprint (37 + 32n), nor the converse, and an
\* account that does not exist has no bytes.
BlueprintTryFromSlice(key) ==
    /\ key \in DOMAIN blueprints
    /\ BlueprintLen(blueprints[key].data) = blueprints[key].size

ProposalTryFromSlice(key) ==
    /\ key \in DOMAIN proposals
    /\ ProposalLen(proposals[key].data) = proposals[key].size

\* Mutant: the failure of create_account is ignored.
InUseIgnored(key) == FALSE

\* An address already holds an account: create_account fails on it.
InUse(key) == key \in DOMAIN blueprints \cup DOMAIN proposals

NoCall ==
    [op |-> "none", key |-> ZeroKey, is_signer |-> FALSE,
     blueprint_ai |-> "", proposal_ai |-> "", approvers |-> <<>>,
     threshold |-> 0, action_type |-> 0, payload_hash |-> "", result |-> "",
     wrote |-> FALSE]

Init ==
    /\ blueprints =
        (ZeroSlot :> [owner |-> SystemId, size |-> 37,
                      data |-> [authority |-> ZeroKey, approvers |-> <<>>,
                                threshold |-> 0]])
    /\ proposals =
        (ForgedSlot :> [owner |-> OtherId, size |-> 135,
                        data |-> [blueprint |-> BlueprintPda("A"),
                                  proposer |-> "C", action_type |-> 7,
                                  payload_hash |-> "h1",
                                  approvals |-> <<"A">>, executed |-> FALSE]])
    /\ last = NoCall

(***************************************************************************)
(* The command's wire format: BlueprintInstruction::try_from_slice.  Borsh *)
(* writes an enum as a one-byte variant index followed by the variant's    *)
(* fields in declaration order, integers little-endian, a Vec as a u32     *)
(* length and its elements; try_from_slice fails on bytes left over.       *)
(***************************************************************************)
\* Longest input enumerated byte by byte.
MaxWireLen == 5

\* The byte values enumerated.
WireBytes == {0, 1, 2, 3, 4}

\* The 32 bytes of a wallet key and of a payload hash.
KeyBytes(k) ==
    [i \in 1..32 |-> CASE k = "A" -> 65 [] k = "B" -> 66 [] k = "C" -> 67
                       [] OTHER -> 0]

HashBytes(h) == [i \in 1..32 |-> 17]

U16Le(n) == <<n % 256, (n \div 256) % 256>>

U32Le(n) ==
    <<n % 256, (n \div 256) % 256, (n \div 65536) % 256,
      (n \div 16777216) % 256>>

FromLe(bytes) ==
    LET RECURSIVE Sum(_)
        Sum(i) == IF i > Len(bytes) THEN 0 ELSE bytes[i] + 256 * Sum(i + 1)
    IN  Sum(1)

Concat(seqs) ==
    LET RECURSIVE Cat(_)
        Cat(i) == IF i > Len(seqs) THEN <<>> ELSE seqs[i] \o Cat(i + 1)
    IN  Cat(1)

DecodeError == [variant |-> "Error"]

\* try_from_slice with a variant index of tag_len bytes.
DecodeWith(tag_len, input) ==
    IF Len(input) < tag_len THEN DecodeError
    ELSE LET tag == FromLe(SubSeq(input, 1, tag_len))
             body == SubSeq(input, tag_len + 1, Len(input))
         IN  IF tag = 0 THEN
                 IF Len(body) < 4 THEN DecodeError
                 ELSE LET n == FromLe(SubSeq(body, 1, 4)) IN
                      IF n > Len(body) \/ Len(body) # 4 + 32 * n + 1
                      THEN DecodeError
                      ELSE [variant |-> "InitializeBlueprint",
                            approvers |->
                                [i \in 1..n |->
                                    SubSeq(body, 5 + 32 * (i - 1), 4 + 32 * i)],
                            threshold |-> body[Len(body)]]
             ELSE IF tag = 1 THEN
                 IF Len(body) # 2 + 32 THEN DecodeError
                 ELSE [variant |-> "ProposeAction",
                       action_type |-> FromLe(SubSeq(body, 1, 2)),
                       payload_hash |-> SubSeq(body, 3, 34)]
             ELSE IF tag = 2 THEN
                 IF Len(body) # 0 THEN DecodeError
                 ELSE [variant |-> "ApproveAction"]
             ELSE IF tag = 3 THEN
                 IF Len(body) # 0 THEN DecodeError
                 ELSE [variant |-> "ExecuteAction"]
             ELSE DecodeError

\* Mutant: the variant index is read as a 32-bit little-endian integer.
TryFromSliceTag32(input) == DecodeWith(4, input)

\* BlueprintInstruction::try_from_slice(input)
TryFromSlice(input) == DecodeWith(1, input)

\* BorshSerialize of a BlueprintInstruction.
Encode(ix) ==
    CASE ix.variant = "InitializeBlueprint" ->
            <<0>> \o U32Le(Len(ix.approvers)) \o Concat(ix.approvers)
                \o <<ix.threshold>>
      [] ix.variant = "ProposeAction" ->
            <<1>> \o U16Le(ix.action_type) \o ix.payload_hash
      [] ix.variant = "ApproveAction" -> <<2>>
      [] ix.variant = "ExecuteAction" -> <<3>>

\* The commands the handlers are called with.
Instructions ==
    {[variant |-> "InitializeBlueprint",
      approvers |-> [i \in 1..Len(a) |-> KeyBytes(a[i])], threshold |-> t] :
        a \in ApproverLists, t \in 0..MaxThreshold}
    \cup {[variant |-> "ProposeAction", action_type |-> t,
           payload_hash |-> HashBytes(h)] : t \in ActionTypes, h \in Hashes}
    \cup {[variant |-> "ApproveAction"], [variant |-> "ExecuteAction"]}

\* Inputs of process: every short byte string, every command's encoding,
\* and each encoding with its last byte cut or a byte added.
WireInputs ==
    UNION {[1..n -> WireBytes] : n \in 0..MaxWireLen}
    \cup {Encode(ix) : ix \in Instructions}
    \cup {SubSeq(Encode(ix), 1, Len(Encode(ix)) - 1) : ix \in Instructions}
    \cup {Encode(ix) \o <<0>> : ix \in Instructions}

\* BlueprintError as u32 (ProgramError::Custom).
ErrorCode(e) ==
    CASE e = "InvalidInstruction" -> 0
      [] e = "Unauthorized" -> 1
      [] e = "AlreadyApproved" -> 2
      [] e = "NotEnoughApprovals" -> 3
      [] e = "AlreadyExecuted" -> 4

(***************************************************************************)
(* The conditions the handlers test.                                       *)
(***************************************************************************)
\* Mutant: the signer flag is not tested.
MissingSignerIgnored(first) == FALSE

\* !authority.is_signer (likewise proposer, approver, executor)
MissingSigner(first) == ~first.is_signer

\* Mutant: the derived address is not compared with the account's.
SeedsMismatchIgnored(pda, key) == FALSE

\* pda != *blueprint_ai.key, pda != *proposal_ai.key
SeedsMismatch(pda, key) == pda # key

\* Mutant: process_execute writes the flag before its threshold test.
WroteBeforeThreshold(result) ==
    result \in {"Ok", "ExternalAccountDataModified", "NotEnoughApprovals"}

\* Whether the handler has created an account or written account data when
\* it ends with the given result: the creation and the copy_from_slice are
\* its last statements, after every test (a write the runtime then rejects
\* has been made).
Wrote(result) == result \in {"Ok", "ExternalAccountDataModified"}

\* Mutant: the zero test is left out.
ThresholdInvalidNoZero(approvers, threshold) == threshold > Len(approvers)

\* threshold == 0 || threshold as usize > approvers.len()
ThresholdInvalid(approvers, threshold) ==
    threshold = 0 \/ threshold > Len(approvers)

\* Mutant: the executed flag is not tested.
IsExecutedNever(proposal) == FALSE

\* proposal.executed
IsExecuted(proposal) == proposal.executed

\* blueprint.approvers.iter().any(|k| k == approver.key)
IsApprover(blueprint, key) == Contains(blueprint.approvers, key)

\* Mutant: the duplicate test is left out.
HasApprovedNever(proposal, key) == FALSE

\* proposal.approvals.iter().any(|k| k == approver.key)
HasApproved(proposal, key) == Contains(proposal.approvals, key)

\* Mutant: the comparison is off by one.
NotEnoughOffByOne(proposal, blueprint) ==
    Len(proposal.approvals) + 1 < blueprint.threshold

\* proposal.approvals.len() < blueprint.threshold as usize
NotEnough(proposal, blueprint) ==
    Len(proposal.approvals) < blueprint.threshold

\* Mutant: the write is not bounded by the account's size.
FitsSlotUnchecked(len, size) == TRUE

\* ai.data.borrow_mut()[..data.len()]: the range must lie within the
\* account's bytes, or the program panics and the transaction fails.
FitsSlot(len, size) == len <= size

\* proposal.approvals.push(*approver.key)
Pushed(proposal, key) ==
    [proposal EXCEPT !.approvals = Append(@, key)]

\* proposal.executed = true
MarkedExecuted(proposal) == [proposal EXCEPT !.executed = TRUE]

\* The value built by process_initialize_blueprint.
NewBlueprint(key, approvers, threshold) ==
    [authority |-> key, approvers |-> approvers, threshold |-> threshold]

\* The value built by process_propose.
NewProposal(blueprint_key, key, action_type, payload_hash) ==
    [blueprint |-> blueprint_key, proposer |-> key,
     action_type |-> action_type, payload_hash |-> payload_hash,
     approvals |-> <<>>, executed |-> FALSE]

\* system_instruction::create_account(.., data.len(), program_id): a new
\* account of exactly that size, owned by the program; the bytes are then
\* copied into it.
Created(len, data) == [owner |-> ProgramId, size |-> len, data |-> data]

(***************************************************************************)
(* The result of each handler in the current state.                        *)
(***************************************************************************)
InitializeResult(first, blueprint_ai, approvers, threshold) ==
    IF MissingSigner(first) THEN "MissingRequiredSignature"
    ELSE IF ThresholdInvalid(approvers, threshold) THEN "InvalidArgument"
    ELSE IF SeedsMismatch(BlueprintPda(first.key), blueprint_ai)
        THEN "InvalidSeeds"
    ELSE IF InUse(blueprint_ai) THEN "AccountAlreadyInUse"
    ELSE "Ok"

ProposeResult(first, blueprint_ai, proposal_ai, payload_hash) ==
    IF MissingSigner(first) THEN "MissingRequiredSignature"
    ELSE IF ~BlueprintTryFromSlice(blueprint_ai) THEN "BorshIoError"
    ELSE IF SeedsMismatch(ProposalPda(blueprint_ai, payload_hash), proposal_ai)
        THEN "InvalidSeeds"
    ELSE IF InUse(proposal_ai) THEN "AccountAlreadyInUse"
    ELSE "Ok"

\* Mutant: the approver test comes before the executed test.
ApproveResultAuthFirst(first, blueprint_ai, proposal_ai) ==
    IF MissingSigner(first) THEN "MissingRequiredSignature"
    ELSE IF ~BlueprintTryFromSlice(blueprint_ai) THEN "BorshIoError"
    ELSE IF ~ProposalTryFromSlice(proposal_ai) THEN "BorshIoError"
    ELSE LET blueprint == blueprints[blueprint_ai].data
             proposal == proposals[proposal_ai].data
         IN  IF ~IsApprover(blueprint, first.key) THEN "Unauthorized"
             ELSE IF IsExecuted(proposal) THEN "AlreadyExecuted"
             ELSE IF HasApproved(proposal, first.key) THEN "AlreadyApproved"
             ELSE IF ~FitsSlot(ProposalLen(Pushed(proposal, first.key)),
                               proposals[proposal_ai].size)
                 THEN "Panic"
             ELSE IF proposals[proposal_ai].owner # ProgramId
                 THEN "ExternalAccountDataModified"
             ELSE "Ok"

ApproveResult(first, blueprint_ai, proposal_ai) ==
    IF MissingSigner(first) THEN "MissingRequiredSignature"
    ELSE IF ~BlueprintTryFromSlice(blueprint_ai) THEN "BorshIoError"
    ELSE IF ~ProposalTryFromSlice(proposal_ai) THEN "BorshIoError"
    ELSE LET blueprint == blueprints[blueprint_ai].data
             proposal == proposals[proposal_ai].data
         IN  IF IsExecuted(proposal) THEN "AlreadyExecuted"
             ELSE IF ~IsApprover(blueprint, first.key) THEN "Unauthorized"
             ELSE IF HasApproved(proposal, first.key) THEN "AlreadyApproved"
             ELSE IF ~FitsSlot(ProposalLen(Pushed(proposal, first.key)),
                               proposals[proposal_ai].size)
                 THEN "Panic"
             ELSE IF proposals[proposal_ai].owner # ProgramId
                 THEN "ExternalAccountDataModified"
             ELSE "Ok"

\* Mutant: only an approver of the supplied Blueprint may execute.
ExecuteResultApproverOnly(first, blueprint_ai, proposal_ai) ==
    IF MissingSigner(first) THEN "MissingRequiredSignature"
    ELSE IF ~BlueprintTryFromSlice(blueprint_ai) THEN "BorshIoError"
    ELSE IF ~ProposalTryFromSlice(proposal_ai) THEN "BorshIoError"
    ELSE LET blueprint == blueprints[blueprint_ai].data
             proposal == proposals[proposal_ai].data
         IN  IF IsExecuted(proposal) THEN "AlreadyExecuted"
             ELSE IF ~IsApprover(blueprint, first.key) THEN "Unauthorized"
             ELSE IF NotEnough(proposal, blueprint) THEN "NotEnoughApprovals"
             ELSE IF ~FitsSlot(ProposalLen(MarkedExecuted(proposal)),
                               proposals[proposal_ai].size)
                 THEN "Panic"
             ELSE IF proposals[proposal_ai].owner # ProgramId
                 THEN "ExternalAccountDataModified"
             ELSE "Ok"

ExecuteResult(first, blueprint_ai, proposal_ai) ==
    IF MissingSigner(first) THEN "MissingRequiredSignature"
    ELSE IF ~BlueprintTryFromSlice(blueprint_ai) THEN "BorshIoError"
    ELSE IF ~ProposalTryFromSlice(proposal_ai) THEN "BorshIoError"
    ELSE LET blueprint == blueprints[blueprint_ai].data
             proposal == proposals[proposal_ai].data
         IN  IF IsExecuted(proposal) THEN "AlreadyExecuted"
             ELSE IF NotEnough(proposal, blueprint) THEN "NotEnoughApprovals"
             ELSE IF ~FitsSlot(ProposalLen(MarkedExecuted(proposal)),
                               proposals[proposal_ai].size)
                 THEN "Panic"
             ELSE IF proposals[proposal_ai].owner # ProgramId
                 THEN "ExternalAccountDataModified"
             ELSE "Ok"

(***************************************************************************)
(* The handlers.  A failed transaction changes no account.                 *)
(***************************************************************************)
process_initialize_blueprint(first, blueprint_ai, approvers, threshold) ==
    LET result == InitializeResult(first, blueprint_ai, approvers, threshold)
        blueprint == NewBlueprint(first.key, approvers, threshold)
    IN  /\ last.op = "none"
        /\ last' = [NoCall EXCEPT !.op = "InitializeBlueprint",
                                  !.key = first.key,
                                  !.is_signer = first.is_signer,
                                  !.blueprint_ai = blueprint_ai,
                                  !.approvers = approvers,
                                  !.threshold = threshold,
                                  !.result = result,
                                  !.wrote = Wrote(result)]
        /\ blueprints' =
            IF result = "Ok"
            THEN (blueprint_ai :> Created(BlueprintLen(blueprint), blueprint))
                 @@ blueprints
            ELSE blueprints
        /\ UNCHANGED proposals

process_propose(first, blueprint_ai, proposal_ai, action_type, payload_hash) ==
    LET result == ProposeResult(first, blueprint_ai, proposal_ai, payload_hash)
        proposal == NewProposal(blueprint_ai, first.key, action_type,
                                payload_hash)
    IN  /\ last.op = "none"
        /\ last' = [NoCall EXCEPT !.op = "ProposeAction",
                                  !.key = first.key,
                                  !.is_signer = first.is_signer,
                                  !.blueprint_ai = blueprint_ai,
                                  !.proposal_ai = proposal_ai,
                                  !.action_type = action_type,
                                  !.payload_hash = payload_hash,
                                  !.result = result,
                                  !.wrote = Wrote(result)]
        /\ proposals' =
            IF result = "Ok"
            THEN (proposal_ai :> Created(ProposalLen(proposal), proposal))
                 @@ proposals
            ELSE proposals
        /\ UNCHANGED blueprints

process_approve(first, blueprint_ai, proposal_ai) ==
    LET result == ApproveResult(first, blueprint_ai, proposal_ai) IN
    /\ last.op = "none"
    /\ last' = [NoCall EXCEPT !.op = "ApproveAction",
                              !.key = first.key,
                              !.is_signer = first.is_signer,
                              !.blueprint_ai = blueprint_ai,
                              !.proposal_ai = proposal_ai,
                              !.result = result,
                              !.wrote = Wrote(result)]
    /\ proposals' =
        IF result = "Ok"
        THEN [proposals EXCEPT ![proposal_ai].data = Pushed(@, first.key)]
        ELSE proposals
    /\ UNCHANGED blueprints

process_execute(first, blueprint_ai, proposal_ai) ==
    LET result == ExecuteResult(first, blueprint_ai, proposal_ai) IN
    /\ last.op = "none"
    /\ last' = [NoCall EXCEPT !.op = "ExecuteAction",
                              !.key = first.key,
                              !.is_signer = first.is_signer,
                              !.blueprint_ai = blueprint_ai,
                              !.proposal_ai = proposal_ai,
                              !.result = result,
                              !.wrote = Wrote(result)]
    /\ proposals' =
        IF result = "Ok"
        THEN [proposals EXCEPT ![proposal_ai].data = MarkedExecuted(@)]
        ELSE proposals
    /\ UNCHANGED blueprints

\* Inputs of process that are not the encoding of a command.
InvalidInputs == {<<>>, <<4>>, <<2, 0, 0, 0>>, <<1, 7, 0>>}

\* Processor::process on an input that does not decode: InvalidInstruction,
\* and no handler runs.
process_invalid(input) ==
    /\ last.op = "none"
    /\ TryFromSlice(input) = DecodeError
    /\ last' = [NoCall EXCEPT !.op = "process",
                              !.result = "InvalidInstruction"]
    /\ UNCHANGED <<blueprints, proposals>>

\* The transaction ends; the next call of process starts from the ledger
\* it left.
EndTransaction ==
    /\ last.op # "none"
    /\ last' = NoCall
    /\ UNCHANGED <<blueprints, proposals>>

Next ==
    \/ \E first \in FirstAccounts, blueprint_ai \in BlueprintSlots,
          approvers \in ApproverLists, threshold \in 0..MaxThreshold :
            process_initialize_blueprint(first, blueprint_ai, approvers,
                                         threshold)
    \/ \E first \in FirstAccounts, blueprint_ai \in BlueprintSlots,
          proposal_ai \in ProposalSlots, action_type \in ActionTypes,
          payload_hash \in Hashes :
            process_propose(first, blueprint_ai, proposal_ai, action_type,
                            payload_hash)
    \/ \E first \in FirstAccounts, blueprint_ai \in BlueprintSlots,
          proposal_ai \in ProposalSlots :
            process_approve(first, blueprint_ai, proposal_ai)
    \/ \E first \in FirstAccounts, blueprint_ai \in BlueprintSlots,
          proposal_ai \in ProposalSlots :
            process_execute(first, blueprint_ai, proposal_ai)
    \/ \E input \in InvalidInputs : process_invalid(input)
    \/ EndTransaction

Spec == Init /\ [][Next]_vars

\* Processor::process up to the dispatch: the input is decoded; a decode
\* error returns InvalidInstruction and no handler runs.
process_decode(input) ==
    LET ix == TryFromSlice(input) IN
    /\ last.op = "none"
    /\ last' = [op |-> "process", input |-> input, decoded |-> ix,
                result |-> IF ix = DecodeError THEN "InvalidInstruction"
                           ELSE "Dispatched",
                code |-> IF ix = DecodeError
                         THEN ErrorCode("InvalidInstruction") ELSE -1]
    /\ UNCHANGED <<blueprints, proposals>>

WireNext ==
    \/ \E input \in WireInputs : process_decode(input)
    \/ EndTransaction

SpecWire == Init /\ [][WireNext]_vars

(***************************************************************************)
(* Properties.                                                             *)
(***************************************************************************)
\* The accounts this program created.
ProgramProposals == {a \in DOMAIN proposals : proposals[a].owner = ProgramId}

ProgramBlueprints ==
    {a \in DOMAIN blueprints : blueprints[a].owner = ProgramId}

\* A step is a call of the given handler; last' holds its accounts and result.
Calls(op) == last.op = "none" /\ last'.op = op

\* C1: an Execute succeeds only on a Proposal that is not executed and has at
\* least as many approvals as the threshold of the Blueprint supplied to the
\* call; a signed Execute on a Proposal that is not executed and has fewer
\* approvals fails with NotEnoughApprovals and changes no Proposal.
C1_ExecuteThresholdGate ==
    [][Calls("ExecuteAction") =>
        LET b == last'.blueprint_ai
            p == last'.proposal_ai
        IN  /\ last'.result = "Ok" =>
                /\ b \in DOMAIN blueprints
                /\ p \in DOMAIN proposals
                /\ ~proposals[p].data.executed
                /\ Len(proposals[p].data.approvals)
                     >= blueprints[b].data.threshold
            /\ ( /\ last'.is_signer
                 /\ BlueprintTryFromSlice(b)
                 /\ ProposalTryFromSlice(p)
                 /\ ~proposals[p].data.executed
                 /\ Len(proposals[p].data.approvals)
                      < blueprints[b].data.threshold )
               => /\ last'.result = "NotEnoughApprovals"
                  /\ proposals' = proposals
      ]_vars

\* C1 witness: an Execute has succeeded on a Proposal of the program whose
\* approvals reach the supplied Blueprint's threshold.
C1_Witness ==
    /\ last.op = "ExecuteAction"
    /\ last.result = "Ok"
    /\ last.proposal_ai \in ProgramProposals
    /\ proposals[last.proposal_ai].data.executed
    /\ Len(proposals[last.proposal_ai].data.approvals)
         >= blueprints[last.blueprint_ai].data.threshold

\* C2: every identity in the approvals of a Proposal of the program is in the
\* approvers of the Blueprint stored at the address in its blueprint field.
C2_ApprovalsAreParentApprovers ==
    \A a \in ProgramProposals :
        LET parent == proposals[a].data.blueprint IN
        /\ parent \in DOMAIN blueprints
        /\ \A i \in 1..Len(proposals[a].data.approvals) :
             \E j \in 1..Len(blueprints[parent].data.approvers) :
                blueprints[parent].data.approvers[j]
                    = proposals[a].data.approvals[i]

\* C2 witness: a signer who is an approver of the supplied Blueprint but not
\* of the Proposal's parent has called Approve on a Proposal of the program
\* that is not executed, and the Proposal holds no approval of that signer.
C2_Witness ==
    /\ last.op = "ApproveAction"
    /\ last.is_signer
    /\ last.blueprint_ai \in DOMAIN blueprints
    /\ last.proposal_ai \in ProgramProposals
    /\ LET p == proposals[last.proposal_ai].data IN
        /\ ~p.executed
        /\ p.blueprint # last.blueprint_ai
        /\ \E j \in 1..Len(blueprints[last.blueprint_ai].data.approvers) :
              blueprints[last.blueprint_ai].data.approvers[j] = last.key
        /\ \A j \in 1..Len(blueprints[p.blueprint].data.approvers) :
              blueprints[p.blueprint].data.approvers[j] # last.key
        /\ \A i \in 1..Len(p.approvals) : p.approvals[i] # last.key
    /\ last.result # "Ok"

\* C3: Approve and Execute reject, changing no account, every call in which
\* the Proposal's blueprint field differs from the address of the Blueprint
\* account passed with it.
C3_ParentLinkChecked ==
    [][ ( /\ Calls("ApproveAction") \/ Calls("ExecuteAction")
          /\ last'.proposal_ai \in DOMAIN proposals
          /\ proposals[last'.proposal_ai].data.blueprint # last'.blueprint_ai )
        => /\ last'.result # "Ok"
           /\ proposals' = proposals
           /\ blueprints' = blueprints
      ]_vars

\* No identity occurs twice in the sequence.
NoDuplicates(seq) ==
    \A i, j \in 1..Len(seq) : i # j => seq[i] # seq[j]

\* C4: the approvals of every Proposal of the program hold each identity at
\* most once; an Approve by an identity already in the approvals never
\* succeeds and changes no Proposal, and when the call reaches the duplicate
\* test (signed, accounts decode, not executed, signer an approver of the
\* supplied Blueprint) it fails with AlreadyApproved.
C4_NoDoubleApproval ==
    /\ [](\A a \in ProgramProposals : NoDuplicates(proposals[a].data.approvals))
    /\ [][ ( /\ Calls("ApproveAction")
             /\ last'.proposal_ai \in DOMAIN proposals
             /\ Contains(proposals[last'.proposal_ai].data.approvals,
                         last'.key) )
           => /\ last'.result # "Ok"
              /\ proposals' = proposals
              /\ ( /\ last'.is_signer
                   /\ BlueprintTryFromSlice(last'.blueprint_ai)
                   /\ ProposalTryFromSlice(last'.proposal_ai)
                   /\ ~proposals[last'.proposal_ai].data.executed
                   /\ Contains(blueprints[last'.blueprint_ai].data.approvers,
                               last'.key) )
                 => last'.result = "AlreadyApproved"
         ]_vars

\* C4 witness: an Approve by an identity already in the approvals has failed
\* with AlreadyApproved.
C4_Witness ==
    /\ last.op = "ApproveAction"
    /\ last.result = "AlreadyApproved"
    /\ last.proposal_ai \in DOMAIN proposals
    /\ Contains(proposals[last.proposal_ai].data.approvals, last.key)
    /\ NoDuplicates(proposals[last.proposal_ai].data.approvals)

\* C5: a Proposal that is executed stays an executed Proposal in every step,
\* and an Execute succeeds only on a Proposal that is not yet executed, so at
\* most one Execute succeeds on a Proposal.
C5_ExecutedOnce ==
    [][ /\ \A a \in DOMAIN proposals :
              proposals[a].data.executed =>
                 a \in DOMAIN proposals' /\ proposals'[a].data.executed
        /\ (Calls("ExecuteAction") /\ last'.result = "Ok") =>
              /\ last'.proposal_ai \in DOMAIN proposals
              /\ ~proposals[last'.proposal_ai].data.executed
              /\ proposals'[last'.proposal_ai].data.executed
      ]_vars

\* C5 witness: a Propose at the address of an executed Proposal has failed
\* at account creation, and the Proposal is still executed.
C5_Witness ==
    /\ last.op = "ProposeAction"
    /\ last.result = "AccountAlreadyInUse"
    /\ last.proposal_ai \in ProgramProposals
    /\ proposals[last.proposal_ai].data.executed

\* C6: no step changes any field of an executed Proposal; a signed Approve or
\* Execute on an executed Proposal, whoever signs, fails with AlreadyExecuted.
C6_ExecutedFrozen ==
    [][ /\ \A a \in DOMAIN proposals :
              proposals[a].data.executed =>
                 a \in DOMAIN proposals' /\ proposals'[a] = proposals[a]
        /\ ( /\ Calls("ApproveAction") \/ Calls("ExecuteAction")
             /\ last'.is_signer
             /\ BlueprintTryFromSlice(last'.blueprint_ai)
             /\ ProposalTryFromSlice(last'.proposal_ai)
             /\ proposals[last'.proposal_ai].data.executed )
           => /\ last'.result = "AlreadyExecuted"
              /\ proposals' = proposals
      ]_vars

\* C6 witness: an Approve by an identity that is no approver of the supplied
\* Blueprint has failed with AlreadyExecuted on an executed Proposal.
C6_Witness ==
    /\ last.op = "ApproveAction"
    /\ last.result = "AlreadyExecuted"
    /\ last.proposal_ai \in ProgramProposals
    /\ proposals[last.proposal_ai].data.executed
    /\ ~Contains(blueprints[last.blueprint_ai].data.approvers, last.key)

\* C7: an Approve signed by an approver of the parent Blueprint who has not
\* yet approved, on a Proposal that Propose created and that is not executed,
\* succeeds and appends the signer (so that threshold many such Approves
\* make Execute succeed).
C7_HappyPath ==
    [][ ( /\ Calls("ApproveAction")
          /\ last'.is_signer
          /\ last'.blueprint_ai \in ProgramBlueprints
          /\ last'.proposal_ai \in ProgramProposals
          /\ proposals[last'.proposal_ai].data.blueprint = last'.blueprint_ai
          /\ ~proposals[last'.proposal_ai].data.executed
          /\ Contains(blueprints[last'.blueprint_ai].data.approvers, last'.key)
          /\ ~Contains(proposals[last'.proposal_ai].data.approvals, last'.key) )
        => /\ last'.result = "Ok"
           /\ proposals'[last'.proposal_ai].data.approvals
                = Append(proposals[last'.proposal_ai].data.approvals, last'.key)
      ]_vars

\* C8: an account is created with exactly the encoded length of its record
\* (103 bytes for a Proposal, whose approvals are then empty); the encoded
\* length of every stored record is at most its account's size; an Approve
\* whose grown Proposal would not fit the account fails and changes nothing.
C8_SlotCapacity ==
    /\ [] /\ \A a \in DOMAIN proposals :
                ProposalLen(proposals[a].data) <= proposals[a].size
          /\ \A a \in DOMAIN blueprints :
                BlueprintLen(blueprints[a].data) <= blueprints[a].size
    /\ [][ /\ (Calls("InitializeBlueprint") /\ last'.result = "Ok") =>
                blueprints'[last'.blueprint_ai].size
                    = 37 + 32 * Len(last'.approvers)
           /\ (Calls("ProposeAction") /\ last'.result = "Ok") =>
                /\ proposals'[last'.proposal_ai].size = 103
                /\ proposals'[last'.proposal_ai].data.approvals = <<>>
           /\ ( /\ Calls("ApproveAction")
                /\ last'.proposal_ai \in DOMAIN proposals
                /\ 103 + 32 * (Len(proposals[last'.proposal_ai].data.approvals)
                                 + 1)
                     > proposals[last'.proposal_ai].size )
              => /\ last'.result # "Ok"
                 /\ proposals' = proposals
         ]_vars

\* C8 witness: an Approve that passed every test of the handler has been
\* rejected because the grown Proposal exceeds the account Propose created.
C8_Witness ==
    /\ last.op = "ApproveAction"
    /\ last.result = "Panic"
    /\ last.proposal_ai \in ProgramProposals
    /\ proposals[last.proposal_ai].size = 103
    /\ proposals[last.proposal_ai].data.approvals = <<>>

\* No Approve is ever accepted: the grown Proposal (103 + 32(k+1) bytes)
\* never fits an account whose bytes decode as a Proposal (103 + 32k bytes).
ApproveNeverAccepted ==
    last.op = "ApproveAction" => last.result # "Ok"

\* C9: an accepted Approve appends the signer to the approvals, keeping the
\* earlier entries and their order; the signer is an approver of the supplied
\* Blueprint; the Proposal's other fields are unchanged.
C9_ApproveEffect ==
    [][ (Calls("ApproveAction") /\ last'.result = "Ok") =>
          LET p == last'.proposal_ai IN
          /\ p \in DOMAIN proposals
          /\ proposals'[p].data
               = [proposals[p].data EXCEPT
                    !.approvals = Append(@, last'.key)]
          /\ Contains(blueprints[last'.blueprint_ai].data.approvers, last'.key)
      ]_vars

\* C10: an Initialize with threshold 0 or above the number of approvers
\* creates nothing, failing with InvalidArgument when signed; an accepted
\* Initialize is signed and stores the signer as authority with the submitted
\* approvers and threshold; every Blueprint of the program has
\* 1 <= threshold <= |approvers|.
C10_ThresholdBounds ==
    /\ [](\A a \in ProgramBlueprints :
            /\ 1 <= blueprints[a].data.threshold
            /\ blueprints[a].data.threshold <= Len(blueprints[a].data.approvers))
    /\ [][ Calls("InitializeBlueprint") =>
            /\ (last'.threshold = 0 \/ last'.threshold > Len(last'.approvers))
                 => /\ last'.result # "Ok"
                    /\ blueprints' = blueprints
                    /\ last'.is_signer => last'.result = "InvalidArgument"
            /\ last'.result = "Ok" =>
                 /\ last'.is_signer
                 /\ last'.blueprint_ai \notin DOMAIN blueprints
                 /\ DOMAIN blueprints'
                      = DOMAIN blueprints \cup {last'.blueprint_ai}
                 /\ blueprints'[last'.blueprint_ai].owner = ProgramId
                 /\ blueprints'[last'.blueprint_ai].data
                      = [authority |-> last'.key,
                         approvers |-> last'.approvers,
                         threshold |-> last'.threshold]
                 /\ \A a \in DOMAIN blueprints :
                      blueprints'[a] = blueprints[a]
         ]_vars

\* C10 witness: an Initialize with two approvers and threshold 2 has been
\* accepted and the Blueprint stored.
C10_Witness ==
    /\ last.op = "InitializeBlueprint"
    /\ last.result = "Ok"
    /\ Len(last.approvers) = 2
    /\ last.threshold = 2
    /\ blueprints[last.blueprint_ai].data.threshold = 2

\* C17 as stated: the input is decoded with a 32-bit little-endian tag
\* followed by the variant's fields (so 02 00 00 00 is Approve), and every
\* other byte string fails with InvalidInstruction, custom error code 0.
C17_WireFormatTag32 ==
    last.op = "process" =>
        /\ last.decoded = DecodeWith(4, last.input)
        /\ last.decoded = DecodeError =>
              last.result = "InvalidInstruction" /\ last.code = 0

\* C17 amended: the tag is one byte (0 Initialize, 1 Propose, 2 Approve,
\* 3 Execute) followed by the variant's fields in declaration order: the byte
\* 02 decodes to Approve and 03 to Execute, and 02 00 00 00 is rejected for
\* its trailing bytes; an input decodes exactly when it is the encoding of a
\* command, and to that command; every other input fails with
\* InvalidInstruction, custom error code 0, and no account changes.
C17_WireFormat ==
    /\ [](last.op = "process" =>
            /\ last.input = <<2>> => last.decoded = [variant |-> "ApproveAction"]
            /\ last.input = <<3>> => last.decoded = [variant |-> "ExecuteAction"]
            /\ last.input \in {<<2, 0, 0, 0>>, <<3, 0, 0, 0>>} =>
                  last.result = "InvalidInstruction"
            /\ last.decoded # DecodeError =>
                  /\ last.result = "Dispatched"
                  /\ Encode(last.decoded) = last.input
                  /\ last.input[1] =
                        CASE last.decoded.variant = "InitializeBlueprint" -> 0
                          [] last.decoded.variant = "ProposeAction" -> 1
                          [] last.decoded.variant = "ApproveAction" -> 2
                          [] last.decoded.variant = "ExecuteAction" -> 3
            /\ (\E ix \in Instructions : Encode(ix) = last.input) =>
                  last.decoded \in Instructions
            /\ last.decoded = DecodeError =>
                  last.result = "InvalidInstruction" /\ last.code = 0)
    /\ [][blueprints' = blueprints /\ proposals' = proposals]_vars

\* C17 witness: the four bytes 02 00 00 00 have been rejected with
\* InvalidInstruction.
C17_Witness ==
    /\ last.op = "process"
    /\ last.input = <<2, 0, 0, 0>>
    /\ last.result = "InvalidInstruction"
    /\ last.code = 0

\* A step is a call of process: a command's handler, or a failed decode.
CallsAny == last.op = "none" /\ last'.op # "none"

C12_ProposalUnique ==
    [][ Calls("ProposeAction") =>
          LET pda == ProposalPda(last'.blueprint_ai, last'.payload_hash) IN
          /\ pda \in DOMAIN proposals =>
                /\ last'.result # "Ok"
                /\ proposals' = proposals
                /\ ( /\ last'.is_signer
                     /\ BlueprintTryFromSlice(last'.blueprint_ai)
                     /\ last'.proposal_ai = pda )
                   => last'.result = "AccountAlreadyInUse"
          /\ last'.result = "Ok" =>
                /\ last'.is_signer
                /\ last'.proposal_ai = pda
                /\ DOMAIN proposals' = DOMAIN proposals \cup {pda}
                /\ \A a \in DOMAIN proposals : proposals'[a] = proposals[a]
                /\ proposals'[pda].owner = ProgramId
                /\ proposals'[pda].data
                     = [blueprint |-> last'.blueprint_ai,
                        proposer |-> last'.key,
                        action_type |-> last'.action_type,
                        payload_hash |-> last'.payload_hash,
                        approvals |-> <<>>, executed |-> FALSE]
      ]_vars

\* C12 witness: a second Propose for the pair of an executed Proposal has
\* failed at account creation; the Proposal is still executed and keeps its
\* first proposer.
C12_Witness ==
    /\ last.op = "ProposeAction"
    /\ last.result = "AccountAlreadyInUse"
    /\ last.proposal_ai = ProposalPda(last.blueprint_ai, last.payload_hash)
    /\ proposals[last.proposal_ai].data.executed
    /\ proposals[last.proposal_ai].data.proposer # last.key

\* C13: the address of every Blueprint of the program is the derivation of
\* its authority, and of every Proposal of the program the derivation of its
\* blueprint field and payload_hash; an Initialize or Propose whose target
\* account is not the derived address creates nothing, failing with
\* InvalidSeeds when it reaches the comparison.
C13_AddressBinding ==
    /\ [] /\ \A a \in ProgramBlueprints :
                a = BlueprintPda(blueprints[a].data.authority)
          /\ \A a \in ProgramProposals :
                a = ProposalPda(proposals[a].data.blueprint,
                                proposals[a].data.payload_hash)
    /\ [][ /\ ( /\ Calls("InitializeBlueprint")
                /\ last'.blueprint_ai # BlueprintPda(last'.key) )
              => /\ last'.result # "Ok"
                 /\ blueprints' = blueprints
                 /\ ( /\ last'.is_signer
                      /\ last'.threshold >= 1
                      /\ last'.threshold <= Len(last'.approvers) )
                    => last'.result = "InvalidSeeds"
           /\ ( /\ Calls("ProposeAction")
                /\ last'.proposal_ai
                     # ProposalPda(last'.blueprint_ai, last'.payload_hash) )
              => /\ last'.result # "Ok"
                 /\ proposals' = proposals
                 /\ ( /\ last'.is_signer
                      /\ BlueprintTryFromSlice(last'.blueprint_ai) )
                    => last'.result = "InvalidSeeds"
         ]_vars

\* C13 witness: a Propose whose proposal account is the address derived for
\* another Blueprint has failed with InvalidSeeds, and no account exists
\* there.
C13_Witness ==
    /\ last.op = "ProposeAction"
    /\ last.result = "InvalidSeeds"
    /\ last.blueprint_ai \in ProgramBlueprints
    /\ last.proposal_ai = ProposalPda(BlueprintPda("B"), last.payload_hash)
    /\ last.blueprint_ai # BlueprintPda("B")
    /\ last.proposal_ai \notin DOMAIN proposals

\* C14: Propose, Approve and Execute trust no account as a Blueprint whose
\* address is not the derivation of the authority stored in it, and Approve
\* and Execute trust no account as a Proposal whose address is not the
\* derivation of its blueprint field and payload_hash: a call given such an
\* account does not succeed and changes nothing.
C14_DerivedAddressChecked ==
    [][ ( /\ \/ Calls("ProposeAction")
             \/ Calls("ApproveAction")
             \/ Calls("ExecuteAction")
          /\ \/ /\ last'.blueprint_ai \in DOMAIN blueprints
                /\ last'.blueprint_ai
                     # BlueprintPda(blueprints[last'.blueprint_ai].data.authority)
             \/ /\ last'.op # "ProposeAction"
                /\ last'.proposal_ai \in DOMAIN proposals
                /\ last'.proposal_ai
                     # ProposalPda(proposals[last'.proposal_ai].data.blueprint,
                                   proposals[last'.proposal_ai].data.payload_hash) )
        => /\ last'.result # "Ok"
           /\ proposals' = proposals
           /\ blueprints' = blueprints
      ]_vars

\* C15: no step changes or removes a Blueprint; an Initialize by an authority
\* whose Blueprint exists creates nothing, failing at account creation when
\* it is signed with a threshold in range and the derived address.
C15_BlueprintImmutable ==
    [][ /\ \A a \in DOMAIN blueprints :
              a \in DOMAIN blueprints' /\ blueprints'[a] = blueprints[a]
        /\ ( /\ Calls("InitializeBlueprint")
             /\ BlueprintPda(last'.key) \in DOMAIN blueprints )
           => /\ last'.result # "Ok"
              /\ blueprints' = blueprints
              /\ ( /\ last'.is_signer
                   /\ last'.threshold >= 1
                   /\ last'.threshold <= Len(last'.approvers)
                   /\ last'.blueprint_ai = BlueprintPda(last'.key) )
                 => last'.result = "AccountAlreadyInUse"
      ]_vars

\* C15 witness: a second Initialize by the authority of an existing
\* Blueprint, with other approvers, has failed at account creation and the
\* Blueprint keeps its approvers.
C15_Witness ==
    /\ last.op = "InitializeBlueprint"
    /\ last.result = "AccountAlreadyInUse"
    /\ last.blueprint_ai \in ProgramBlueprints
    /\ blueprints[last.blueprint_ai].data.authority = last.key
    /\ blueprints[last.blueprint_ai].data.approvers # last.approvers

\* C16: a handler whose first account is not a signer fails with
\* MissingSignature and changes nothing; an identity enters a Proposal's
\* approvals only by an accepted Approve it signed on that Proposal, and a
\* Blueprint is created only by an Initialize its authority signed.
C16_NoImpersonation ==
    [][ /\ ( /\ \/ Calls("InitializeBlueprint")
                \/ Calls("ProposeAction")
                \/ Calls("ApproveAction")
                \/ Calls("ExecuteAction")
             /\ ~last'.is_signer )
           => /\ last'.result = "MissingRequiredSignature"
              /\ blueprints' = blueprints
              /\ proposals' = proposals
        /\ \A a \in DOMAIN proposals :
              proposals'[a].data.approvals # proposals[a].data.approvals =>
                 /\ Calls("ApproveAction")
                 /\ last'.is_signer
                 /\ last'.result = "Ok"
                 /\ last'.proposal_ai = a
                 /\ proposals'[a].data.approvals
                      = Append(proposals[a].data.approvals, last'.key)
        /\ \A a \in DOMAIN proposals' \ DOMAIN proposals :
              /\ proposals'[a].data.approvals = <<>>
              /\ Calls("ProposeAction")
              /\ last'.is_signer
              /\ proposals'[a].data.proposer = last'.key
        /\ \A a \in DOMAIN blueprints' \ DOMAIN blueprints :
              /\ Calls("InitializeBlueprint")
              /\ last'.is_signer
              /\ blueprints'[a].data.authority = last'.key
      ]_vars

\* C16 witness: an Approve naming, without its signature, an approver of the
\* parent Blueprint has failed with MissingSignature on a Proposal of the
\* program that is not executed.
C16_Witness ==
    /\ last.op = "ApproveAction"
    /\ ~last.is_signer
    /\ last.result = "MissingRequiredSignature"
    /\ last.proposal_ai \in ProgramProposals
    /\ ~proposals[last.proposal_ai].data.executed
    /\ proposals[last.proposal_ai].data.blueprint = last.blueprint_ai
    /\ Contains(blueprints[last.blueprint_ai].data.approvers, last.key)

\* C18: on accounts that decode, Approve reports the first failing test in
\* the order signer, executed, approver, duplicate; Execute reports
\* AlreadyExecuted before NotEnoughApprovals.
C18_CheckOrder ==
    [][ /\ ( /\ Calls("ApproveAction")
             /\ BlueprintTryFromSlice(last'.blueprint_ai)
             /\ ProposalTryFromSlice(last'.proposal_ai) )
           => LET b == blueprints[last'.blueprint_ai].data
                  p == proposals[last'.proposal_ai].data
              IN  /\ ~last'.is_signer =>
                        last'.result = "MissingRequiredSignature"
                  /\ (last'.is_signer /\ p.executed) =>
                        last'.result = "AlreadyExecuted"
                  /\ ( /\ last'.is_signer
                       /\ ~p.executed
                       /\ ~Contains(b.approvers, last'.key) )
                     => /\ last'.result = "Unauthorized"
                        /\ proposals' = proposals
                  /\ ( /\ last'.is_signer
                       /\ ~p.executed
                       /\ Contains(b.approvers, last'.key)
                       /\ Contains(p.approvals, last'.key) )
                     => last'.result = "AlreadyApproved"
        /\ ( /\ Calls("ExecuteAction")
             /\ last'.is_signer
             /\ BlueprintTryFromSlice(last'.blueprint_ai)
             /\ ProposalTryFromSlice(last'.proposal_ai)
             /\ proposals[last'.proposal_ai].data.executed )
           => last'.result = "AlreadyExecuted"
      ]_vars

\* C18 witness: an identity that is no approver of the parent Blueprint, and
\* is already in the approvals, has approved an executed Proposal below its
\* parent's threshold and received AlreadyExecuted.
C18_Witness ==
    /\ last.op = "ApproveAction"
    /\ last.result = "AlreadyExecuted"
    /\ last.proposal_ai \in ProgramProposals
    /\ proposals[last.proposal_ai].data.blueprint = last.blueprint_ai
    /\ ~Contains(blueprints[last.blueprint_ai].data.approvers, last.key)
    /\ Len(proposals[last.proposal_ai].data.approvals)
         < blueprints[last.blueprint_ai].data.threshold

\* The identities of a sequence.
Distinct(seq) == {seq[i] : i \in 1..Len(seq)}

\* A Blueprint of the program whose threshold exceeds the number of distinct
\* identities among its approvers.
Unsatisfiable(b) ==
    /\ b \in ProgramBlueprints
    /\ blueprints[b].data.threshold
         > Cardinality(Distinct(blueprints[b].data.approvers))

\* C19: Initialize accepts an approver list with a repeated identity; an
\* identity already in a Proposal's approvals adds no second approval (its
\* Approve fails with AlreadyApproved); and no Approve or Execute against a
\* Blueprint whose threshold exceeds its distinct approvers makes a Proposal
\* under it executed, the Proposals of the program under it staying below
\* the threshold.
C19_DuplicateApprovers ==
    /\ [](\A a \in ProgramProposals :
            Unsatisfiable(proposals[a].data.blueprint) =>
               Len(proposals[a].data.approvals)
                 < blueprints[proposals[a].data.blueprint].data.threshold)
    /\ [][ /\ ( /\ Calls("InitializeBlueprint")
                /\ last'.is_signer
                /\ last'.threshold >= 1
                /\ last'.threshold <= Len(last'.approvers)
                /\ last'.blueprint_ai = BlueprintPda(last'.key)
                /\ last'.blueprint_ai \notin DOMAIN blueprints
                       \cup DOMAIN proposals )
              => /\ last'.result = "Ok"
                 /\ blueprints'[last'.blueprint_ai].data.approvers
                      = last'.approvers
           /\ ( /\ Calls("ApproveAction") \/ Calls("ExecuteAction")
                /\ last'.proposal_ai \in DOMAIN proposals
                /\ proposals[last'.proposal_ai].data.blueprint
                     = last'.blueprint_ai )
              => LET b == last'.blueprint_ai
                     p == proposals[last'.proposal_ai].data
                 IN  /\ ( /\ last'.op = "ApproveAction"
                          /\ last'.is_signer
                          /\ b \in ProgramBlueprints
                          /\ ProposalTryFromSlice(last'.proposal_ai)
                          /\ ~p.executed
                          /\ Contains(blueprints[b].data.approvers, last'.key)
                          /\ Contains(p.approvals, last'.key) )
                        => /\ last'.result = "AlreadyApproved"
                           /\ proposals' = proposals
                     /\ Unsatisfiable(b) =>
                           /\ proposals'[last'.proposal_ai].data.executed
                                = p.executed
                           /\ last'.op = "ExecuteAction" => last'.result # "Ok"
         ]_vars

\* C19 witness: under a Blueprint with approvers [A, A] and threshold 2, an
\* Execute against it has failed with NotEnoughApprovals on a Proposal of the
\* program under it.
C19_Witness ==
    /\ last.op = "ExecuteAction"
    /\ last.result = "NotEnoughApprovals"
    /\ last.blueprint_ai \in ProgramBlueprints
    /\ blueprints[last.blueprint_ai].data.approvers = <<"A", "A">>
    /\ blueprints[last.blueprint_ai].data.threshold = 2
    /\ last.proposal_ai \in ProgramProposals
    /\ proposals[last.proposal_ai].data.blueprint = last.blueprint_ai
    /\ ~proposals[last.proposal_ai].data.executed

\* C20: a successful Execute sets the executed flag of the supplied Proposal
\* and changes nothing else: not its other fields, no Blueprint, no other
\* Proposal; and the result of an Execute is the same for every signer.
C20_ExecuteFrame ==
    /\ [](last.op = "none" =>
            \A b \in BlueprintSlots, p \in ProposalSlots, k1, k2 \in Keys :
                ExecuteResult([key |-> k1, is_signer |-> TRUE], b, p)
                  = ExecuteResult([key |-> k2, is_signer |-> TRUE], b, p))
    /\ [][ (Calls("ExecuteAction") /\ last'.result = "Ok") =>
             /\ last'.proposal_ai \in DOMAIN proposals
             /\ ~proposals[last'.proposal_ai].data.executed
             /\ proposals' =
                  [proposals EXCEPT ![last'.proposal_ai].data.executed = TRUE]
             /\ blueprints' = blueprints
         ]_vars

\* C20 witness: an Execute signed by an identity that is an approver neither
\* of the supplied Blueprint nor of the parent has succeeded, while another
\* Proposal of the program exists and is not executed.
C20_Witness ==
    /\ last.op = "ExecuteAction"
    /\ last.result = "Ok"
    /\ last.proposal_ai \in ProgramProposals
    /\ proposals[last.proposal_ai].data.executed
    /\ ~Contains(blueprints[last.blueprint_ai].data.approvers, last.key)
    /\ ~Contains(blueprints[proposals[last.proposal_ai].data.blueprint]
                    .data.approvers, last.key)
    /\ \E a \in ProgramProposals :
          a # last.proposal_ai /\ ~proposals[a].data.executed

====
